---- MODULE Spec2Model ----
(***************************************************************************)
(* Model of tubular/segment_api.py: the SegmentApi client.                 *)
(*                                                                         *)
(* delete_learners walks a learner list in windows of chunk_size records,  *)
(* flattens each window into a list of identifier strings, and POSTs it    *)
(* through _call_segment_post, which is wrapped in three nested            *)
(* backoff.on_exception layers (decode, HTTP error, timeout).              *)
(* get_bulk_delete_status GETs a status document through the same layers.  *)
(*                                                                         *)
(* Indices (curr_idx, start_idx, end_idx, beginning_idx) are Python's      *)
(* 0-based indices; the learner at index i is learners[i + 1].             *)
(***************************************************************************)
EXTENDS Integers, Sequences, FiniteSets, TLC

VARIABLES
    op,                  \* which public method runs: "none", "delete", "status"
    pc,                  \* "idle", "loop", "call", "done", "raised"
    learners,            \* argument of delete_learners
    chunk_size,          \* argument of delete_learners
    beginning_idx,       \* argument of delete_learners
    curr_idx,            \* local of delete_learners
    start_idx,           \* local of delete_learners
    end_idx,             \* local of delete_learners
    learner_vals,        \* local of delete_learners: params.attributes.values
    resp_json,           \* local of delete_learners / get_bulk_delete_status
    bulk_user_delete_id, \* local of delete_learners
    decode_tries,        \* tries of the func_with_decode_backoff layer
    http_tries,          \* tries of the func_with_backoff layer
    timeout_tries,       \* tries of the func_with_timeout_backoff layer
    resp,                \* the last answer of the server
    attempts,            \* requests issued by the current outbound call
    timeouts,            \* attempts of the current call that ended in a timeout
    http_errors,         \* attempts of the current call that ended in an HTTP error
    posted,              \* windows a POST was issued for, in order
    submitted,           \* windows whose submission succeeded, in order
    clean,               \* no attempt has failed since the method was entered
    ceiling_hit,         \* the "too many user values" branch was taken
    err,                 \* the exception that left the method
    result               \* the value the method returned

vars == <<op, pc, learners, chunk_size, beginning_idx, curr_idx, start_idx,
          end_idx, learner_vals, resp_json, bulk_user_delete_id, decode_tries,
          http_tries, timeout_tries, resp, attempts, timeouts, http_errors,
          posted, submitted, clean, ceiling_hit, err, result>>

(***************************************************************************)
(* Program constants.                                                      *)
(***************************************************************************)
MAX_TRIES == 4

MAXIMUM_USERS_IN_DELETE_REQUEST == 5000

REQUIRED_IDENTIFYING_KEYS == <<"id", "original_username">>

OPTIONAL_IDENTIFYING_KEYS == <<"ecommerce_segment_id">>

(***************************************************************************)
(* Bounds of the model.                                                    *)
(***************************************************************************)
\* longest learner list whose records are chosen freely
MaxLearners == 2

\* largest chunk_size tried on those lists
MaxChunk == 2

(***************************************************************************)
(* Python values.                                                          *)
(***************************************************************************)
None == [type |-> "NoneType", val |-> "None"]

Unset == [type |-> "unset", val |-> "unset"]

\* Python values carry their type: int, str, dict, list
PyInt(n) == [type |-> "int", val |-> n]

PyStr(s) == [type |-> "str", val |-> s]

Min(a, b) == IF a < b THEN a ELSE b

\* learners[idx] with Python's 0-based index
At(ls, idx) == ls[idx + 1]

\* id_key in learners[idx]
HasKey(learner, id_key) == id_key \in DOMAIN learner

(***************************************************************************)
(* Learner records: dicts that hold some of the identifying keys.  The id  *)
(* is an int, the two names are strs; all are distinct across a list.      *)
(***************************************************************************)
LearnerKinds == {"full", "noopt", "noid", "nouser"}

Learner(i, kind) ==
    CASE kind = "full" ->
            [id |-> PyInt(100 + i),
             original_username |-> PyStr("user" \o ToString(i)),
             ecommerce_segment_id |-> PyStr("ecom" \o ToString(i))]
      [] kind = "noopt" ->
            [id |-> PyInt(100 + i),
             original_username |-> PyStr("user" \o ToString(i))]
      [] kind = "noid" ->
            [original_username |-> PyStr("user" \o ToString(i)),
             ecommerce_segment_id |-> PyStr("ecom" \o ToString(i))]
      [] kind = "nouser" ->
            [id |-> PyInt(100 + i)]

(***************************************************************************)
(* The arguments tried.  Short lists take every combination of record      *)
(* kinds; ExampleLearners is the 12-record list of the documentation,      *)
(* taken whole and with one record that lacks a required key; the long     *)
(* lists are two windows whose flattened sizes sit at the ceiling.         *)
(***************************************************************************)
SmallLists ==
    UNION {{[i \in 1..n |-> Learner(i, kinds[i])] : kinds \in [1..n -> LearnerKinds]}
           : n \in 0..MaxLearners}

ExampleLearners ==
    [i \in 1..12 |-> Learner(i, IF i % 2 = 0 THEN "full" ELSE "noopt")]

\* ExampleLearners with the record at index idx replaced by one of another kind
ExampleWith(idx, kind) ==
    [i \in 1..12 |-> IF i = idx + 1 THEN Learner(i, kind) ELSE ExampleLearners[i]]

\* the smallest number of records whose values can reach the ceiling
BigChunk == (MAXIMUM_USERS_IN_DELETE_REQUEST + 2) \div 3

\* two windows of BigChunk records; the first k1 records of the first window
\* and the first k2 records of the second carry the optional key
BigList(k1, k2) ==
    [i \in 1..(2 * BigChunk) |->
        Learner(i, IF (i <= BigChunk /\ i <= k1)
                      \/ (i > BigChunk /\ i - BigChunk <= k2)
                   THEN "full" ELSE "noopt")]

\* optional keys per window that give ceiling - 1 and ceiling values
BigOptCounts ==
    {MAXIMUM_USERS_IN_DELETE_REQUEST - 2 * BigChunk - 1,
     MAXIMUM_USERS_IN_DELETE_REQUEST - 2 * BigChunk}

DeleteArgs ==
    {a \in [learners : SmallLists, chunk_size : 1..MaxChunk,
            beginning_idx : 0..MaxLearners] :
        a.beginning_idx <= Len(a.learners)}
    \cup {[learners |-> ExampleLearners, chunk_size |-> 5, beginning_idx |-> b] :
            b \in {0, 3}}
    \cup {[learners |-> ExampleWith(idx, kind), chunk_size |-> 5,
           beginning_idx |-> 0] : idx \in {2, 7, 11}, kind \in {"noid", "nouser"}}
    \cup {[learners |-> BigList(k1, k2), chunk_size |-> BigChunk,
           beginning_idx |-> 0] : k1 \in BigOptCounts, k2 \in BigOptCounts}

(***************************************************************************)
(* The server.  An attempt either times out or is answered with a status   *)
(* and a body text.                                                        *)
(***************************************************************************)
Statuses == {200, 404, 429, 499, 500, 599}

BODY_R1 == "{\"regulate_id\": \"r1\"}"

BODY_R2 == "{\"regulate_id\": \"r2\"}"

BODY_NOID == "{\"error\": \"denied\"}"

BODY_LIST == "[\"r1\"]"

BODY_HTML == "<html>Bad Gateway</html>"

BODY_ERR == "{\"error\": \"server\"}"

OkBodies == {BODY_R1, BODY_R2, BODY_NOID, BODY_LIST, BODY_HTML}

Outcomes ==
    {[kind |-> "timeout", status_code |-> 0, text |-> ""]}
    \cup {[kind |-> "response", status_code |-> 200, text |-> b] : b \in OkBodies}
    \cup {[kind |-> "response", status_code |-> s, text |-> BODY_ERR] :
            s \in Statuses \ {200}}

NoResponse == [kind |-> "none", status_code |-> 0, text |-> ""]

JSONDecodeError == [type |-> "JSONDecodeError"]

\* resp.json(): the parsed body, or JSONDecodeError
Json(text) ==
    CASE text = BODY_R1   -> [type |-> "dict", val |-> [regulate_id |-> "r1"]]
      [] text = BODY_R2   -> [type |-> "dict", val |-> [regulate_id |-> "r2"]]
      [] text = BODY_NOID -> [type |-> "dict", val |-> [error |-> "denied"]]
      [] text = BODY_ERR  -> [type |-> "dict", val |-> [error |-> "server"]]
      [] text = BODY_LIST -> [type |-> "list", val |-> <<"r1">>]
      [] OTHER            -> JSONDecodeError

\* Python's text of a parsed body: the repr of the dict or list
Repr(parsed) ==
    IF parsed.type = "list" THEN "['" \o parsed.val[1] \o "']"
    ELSE IF "regulate_id" \in DOMAIN parsed.val
         THEN "{'regulate_id': '" \o parsed.val.regulate_id \o "'}"
    ELSE "{'error': '" \o parsed.val.error \o "'}"

\* six.text_type: an int becomes its decimal text, a str stays itself, a
\* dict or list becomes its repr
text_type(v) ==
    CASE v.type = "int" -> ToString(v.val)
      [] v.type = "str" -> v.val
      [] OTHER          -> Repr(v)

\* resp_json['regulate_id']: the value, or the exception the subscript raises
Subscript(parsed, key) ==
    IF parsed.type # "dict" THEN [type |-> "TypeError"]
    ELSE IF key \notin DOMAIN parsed.val THEN [type |-> "KeyError"]
    ELSE [type |-> "value", val |-> parsed.val[key]]

(***************************************************************************)
(* _call_segment_post / _call_segment_get and the retry layers.            *)
(***************************************************************************)
\* the body of the decorated function for one answer of the server:
\* requests.post / requests.get, then resp.raise_for_status()
Request(o) ==
    IF o.kind = "timeout" THEN [type |-> "Timeout"]
    ELSE IF 400 <= o.status_code /\ o.status_code < 600
         THEN [type |-> "HTTPError"]
    ELSE [type |-> "return"]

_http_status_giveup_never(status_code) == FALSE

_http_status_giveup_5xx(status_code) ==
    ~(500 <= status_code /\ status_code < 600)

_http_status_giveup(status_code) ==
    ~(429 = status_code) /\ ~(500 <= status_code /\ status_code < 600)

TimeoutLayerRetries_late(exc, tries) ==
    exc.type = "Timeout" /\ tries # MAX_TRIES + 1

\* backoff.on_exception(_wait_30_seconds, Timeout, max_tries=MAX_TRIES)
TimeoutLayerRetries(exc, tries) ==
    exc.type = "Timeout" /\ tries # MAX_TRIES

HttpLayerRetries_late(exc, status_code, tries) ==
    /\ exc.type = "HTTPError"
    /\ ~(_http_status_giveup(status_code) \/ tries = MAX_TRIES + 1)

HttpLayerRetries_early(exc, status_code, tries) ==
    /\ exc.type = "HTTPError"
    /\ ~(_http_status_giveup(status_code) \/ tries = MAX_TRIES - 1)

\* backoff.on_exception(expo, HTTPError, max_tries=MAX_TRIES, giveup=...)
HttpLayerRetries(exc, status_code, tries) ==
    /\ exc.type = "HTTPError"
    /\ ~(_http_status_giveup(status_code) \/ tries = MAX_TRIES)

\* backoff.on_exception(expo, JSONDecodeError, max_tries=MAX_TRIES)
DecodeLayerRetries(exc, tries) ==
    exc.type = "JSONDecodeError" /\ tries # MAX_TRIES

\* func_with_decode_backoff(func_with_backoff(func_with_timeout_backoff(func)))
\* after one attempt answered by o: "return", "retry" or "raise", and the
\* tries of the three layers when the next attempt starts
_retry_segment_api(o, dt, ht, tt) ==
    LET exc == Request(o) IN
    IF exc.type = "return"
    THEN [act |-> "return", exc |-> exc, dt |-> dt, ht |-> ht, tt |-> tt]
    ELSE IF TimeoutLayerRetries(exc, tt)
    THEN [act |-> "retry", exc |-> exc, dt |-> dt, ht |-> ht, tt |-> tt + 1]
    ELSE IF HttpLayerRetries(exc, o.status_code, ht)
    THEN [act |-> "retry", exc |-> exc, dt |-> dt, ht |-> ht + 1, tt |-> 1]
    ELSE IF DecodeLayerRetries(exc, dt)
    THEN [act |-> "retry", exc |-> exc, dt |-> dt + 1, ht |-> 1, tt |-> 1]
    ELSE [act |-> "raise", exc |-> exc, dt |-> dt, ht |-> ht, tt |-> tt]

(***************************************************************************)
(* delete_learners.                                                        *)
(***************************************************************************)
LearnerVals_swapped(learner) ==
    <<text_type(learner["original_username"]), text_type(learner["id"])>>
    \o (IF HasKey(learner, "ecommerce_segment_id")
        THEN <<text_type(learner["ecommerce_segment_id"])>> ELSE <<>>)

\* the values one record contributes: the required keys, then the optional
\* keys it holds
LearnerVals(learner) ==
    [k \in 1..Len(REQUIRED_IDENTIFYING_KEYS) |->
        text_type(learner[REQUIRED_IDENTIFYING_KEYS[k]])]
    \o [k \in 1..Len(SelectSeq(OPTIONAL_IDENTIFYING_KEYS,
                               LAMBDA id_key : HasKey(learner, id_key))) |->
        text_type(learner[SelectSeq(OPTIONAL_IDENTIFYING_KEYS,
                                    LAMBDA id_key : HasKey(learner, id_key))[k]])]

\* the loop over range(start_idx, end_idx + 1) that fills learner_vals,
\* evaluated by halving the range
RECURSIVE Flatten(_, _, _)
Flatten(ls, lo, hi) ==
    IF lo > hi THEN <<>>
    ELSE IF lo = hi THEN LearnerVals(At(ls, lo))
    ELSE LET mid == (lo + hi) \div 2
         IN  Flatten(ls, lo, mid) \o Flatten(ls, mid + 1, hi)

\* a record of the window lacks a required key: the LOG.info arguments or the
\* flattening loop raise KeyError
MissingRequired(ls, lo, hi) ==
    \E idx \in lo..hi : \E k \in 1..Len(REQUIRED_IDENTIFYING_KEYS) :
        ~HasKey(At(ls, idx), REQUIRED_IDENTIFYING_KEYS[k])

\* the key of that KeyError: LOG.info reads both keys of learners[start_idx],
\* then both of learners[end_idx]; the loop then reads the records in order
FirstMissingKey(ls, lo, hi) ==
    LET Lacks(idx) == {k \in 1..Len(REQUIRED_IDENTIFYING_KEYS) :
                          ~HasKey(At(ls, idx), REQUIRED_IDENTIFYING_KEYS[k])}
        FirstOf(idx) == REQUIRED_IDENTIFYING_KEYS[
                            CHOOSE k \in Lacks(idx) : \A j \in Lacks(idx) : k <= j]
        bad == {idx \in lo..hi : Lacks(idx) # {}}
    IN  IF Lacks(lo) # {} THEN FirstOf(lo)
        ELSE IF Lacks(hi) # {} THEN FirstOf(hi)
        ELSE FirstOf(CHOOSE idx \in bad : \A j \in bad : idx <= j)

\* a flattening that passes over the records that lack a required key
WindowValues_skip(ls, lo, hi) ==
    LET valid == SelectSeq(SubSeq(ls, lo + 1, hi + 1),
                           LAMBDA l : \A k \in 1..Len(REQUIRED_IDENTIFYING_KEYS) :
                                          HasKey(l, REQUIRED_IDENTIFYING_KEYS[k]))
    IN  [type |-> "values", key |-> "", vals |-> Flatten(valid, 0, Len(valid) - 1)]

\* the values of the window, or the KeyError its records raise on the way
WindowValues(ls, lo, hi) ==
    IF MissingRequired(ls, lo, hi)
    THEN [type |-> "KeyError", key |-> FirstMissingKey(ls, lo, hi), vals |-> <<>>]
    ELSE [type |-> "values", key |-> "", vals |-> Flatten(ls, lo, hi)]

EndIdx_overlap(start, chunk, n) == Min(start + chunk, n - 1)

\* end_idx = min(start_idx + chunk_size - 1, len(learners) - 1)
EndIdx(start, chunk, n) == Min(start + chunk - 1, n - 1)

TooManyValues_gt(vals) == Len(vals) > MAXIMUM_USERS_IN_DELETE_REQUEST

\* len(learner_vals) >= MAXIMUM_USERS_IN_DELETE_REQUEST
TooManyValues(vals) == Len(vals) >= MAXIMUM_USERS_IN_DELETE_REQUEST

NextIdx_skip(curr, chunk) == curr + chunk + 1

NextIdx_back(curr, chunk) == curr + chunk - 1

NextIdx_stay(curr, chunk) == curr

\* curr_idx += chunk_size
NextIdx(curr, chunk) == curr + chunk

\* the message of the Exception built in the except clause
WrappedError(cause, start, end, content) ==
    [type |-> "Exception", cause |-> cause,
     indices |-> <<start, end>>, content |-> text_type(content)]

\* an exception that leaves the method as it was raised
RawError(type, key) ==
    [type |-> type, cause |-> type, indices |-> <<>>, content |-> key]

\* except (TypeError, KeyError, requests.exceptions.HTTPError, JSONDecodeError)
Caught(type) == type \in {"TypeError", "KeyError", "HTTPError", "JSONDecodeError"}

OnCeiling_raise == "raised"

\* where the "too many user values" branch leaves the method: return
OnCeiling == "done"

OnSubmitError_continue == "loop"

\* where a failed submission leaves the method: raise Exception(err)
OnSubmitError == "raised"

\* the exception that leaves the try statement around the submission
Surfaced(type, start, end, content) ==
    IF Caught(type)
    THEN WrappedError(type, start, end, content)
    ELSE RawError(type, "")

NoError == [type |-> "none", cause |-> "none", indices |-> <<>>, content |-> ""]

Init ==
    /\ op = "none"
    /\ pc = "idle"
    /\ learners = <<>>
    /\ chunk_size = 1
    /\ beginning_idx = 0
    /\ curr_idx = 0
    /\ start_idx = 0
    /\ end_idx = 0
    /\ learner_vals = <<>>
    /\ resp_json = PyStr("")
    /\ bulk_user_delete_id = ""
    /\ decode_tries = 1
    /\ http_tries = 1
    /\ timeout_tries = 1
    /\ resp = NoResponse
    /\ attempts = 0
    /\ timeouts = 0
    /\ http_errors = 0
    /\ posted = <<>>
    /\ submitted = <<>>
    /\ clean = TRUE
    /\ ceiling_hit = FALSE
    /\ err = NoError
    /\ result = Unset

\* delete_learners(learners, chunk_size, beginning_idx) is entered
DeleteLearners ==
    /\ pc = "idle"
    /\ \E a \in DeleteArgs :
        /\ learners' = a.learners
        /\ chunk_size' = a.chunk_size
        /\ beginning_idx' = a.beginning_idx
        /\ curr_idx' = a.beginning_idx
    /\ op' = "delete"
    /\ pc' = "loop"
    /\ UNCHANGED <<start_idx, end_idx, learner_vals, resp_json,
                   bulk_user_delete_id, decode_tries, http_tries, timeout_tries,
                   resp, attempts, timeouts, http_errors, posted, submitted,
                   clean, ceiling_hit, err, result>>

\* delete_learner(learner): delete_learners([learner], 1)
DeleteLearner ==
    /\ pc = "idle"
    /\ \E kind \in LearnerKinds : learners' = <<Learner(1, kind)>>
    /\ chunk_size' = 1
    /\ beginning_idx' = 0
    /\ curr_idx' = 0
    /\ op' = "delete"
    /\ pc' = "loop"
    /\ UNCHANGED <<start_idx, end_idx, learner_vals, resp_json,
                   bulk_user_delete_id, decode_tries, http_tries, timeout_tries,
                   resp, attempts, timeouts, http_errors, posted, submitted,
                   clean, ceiling_hit, err, result>>

\* one pass from the while test to the call of _call_segment_post
BeginWindow ==
    /\ op = "delete"
    /\ pc = "loop"
    /\ IF ~(curr_idx < Len(learners))
       THEN /\ pc' = "done"
            /\ result' = None
            /\ UNCHANGED <<start_idx, end_idx, learner_vals, resp_json,
                           ceiling_hit, err, decode_tries, http_tries,
                           timeout_tries, attempts, timeouts, http_errors>>
       ELSE LET start == curr_idx
                end == EndIdx(start, chunk_size, Len(learners))
                window == WindowValues(learners, start, end)
            IN  /\ start_idx' = start
                /\ end_idx' = end
                /\ IF window.type = "KeyError"
                   THEN /\ pc' = "raised"
                        /\ err' = RawError("KeyError", window.key)
                        /\ UNCHANGED <<learner_vals, resp_json, ceiling_hit,
                                       result, decode_tries, http_tries,
                                       timeout_tries, attempts, timeouts,
                                       http_errors>>
                   ELSE LET vals == window.vals
                        IN  /\ learner_vals' = vals
                            /\ IF TooManyValues(vals)
                               THEN /\ pc' = OnCeiling
                                    /\ result' = None
                                    /\ ceiling_hit' = TRUE
                                    /\ UNCHANGED <<resp_json, err, decode_tries,
                                                   http_tries, timeout_tries,
                                                   attempts, timeouts,
                                                   http_errors>>
                               ELSE /\ pc' = "call"
                                    /\ resp_json' = PyStr("")
                                    /\ decode_tries' = 1
                                    /\ http_tries' = 1
                                    /\ timeout_tries' = 1
                                    /\ attempts' = 0
                                    /\ timeouts' = 0
                                    /\ http_errors' = 0
                                    /\ UNCHANGED <<ceiling_hit, err, result>>
    /\ UNCHANGED <<op, learners, chunk_size, beginning_idx, curr_idx,
                   bulk_user_delete_id, resp, posted, submitted, clean>>

\* one attempt of _call_segment_post for the current window, what the retry
\* layers make of it and, once the call returns or raises, the rest of the
\* loop body
PostAttempt ==
    /\ op = "delete"
    /\ pc = "call"
    /\ \E o \in Outcomes :
        LET d == _retry_segment_api(o, decode_tries, http_tries, timeout_tries)
            parsed == Json(o.text)
            id == Subscript(parsed, "regulate_id")
        IN  /\ resp' = o
            /\ attempts' = attempts + 1
            /\ posted' = IF attempts = 0
                         THEN Append(posted, <<start_idx, end_idx>>)
                         ELSE posted
            /\ timeouts' = timeouts + (IF d.exc.type = "Timeout" THEN 1 ELSE 0)
            /\ http_errors' = http_errors + (IF d.exc.type = "HTTPError" THEN 1 ELSE 0)
            /\ decode_tries' = d.dt
            /\ http_tries' = d.ht
            /\ timeout_tries' = d.tt
            /\ CASE d.act = "retry" ->
                    /\ pc' = "call"
                    /\ clean' = FALSE
                    /\ UNCHANGED <<resp_json, bulk_user_delete_id, curr_idx,
                                   submitted, err>>
                 [] d.act = "raise" ->
                    /\ pc' = OnSubmitError
                    /\ clean' = FALSE
                    /\ err' = Surfaced(d.exc.type, start_idx, end_idx, resp_json)
                    /\ UNCHANGED <<resp_json, bulk_user_delete_id, curr_idx,
                                   submitted>>
                 [] d.act = "return" /\ parsed = JSONDecodeError ->
                    /\ pc' = OnSubmitError
                    /\ clean' = FALSE
                    /\ resp_json' = PyStr(o.text)
                    /\ err' = Surfaced("JSONDecodeError", start_idx, end_idx,
                                       PyStr(o.text))
                    /\ UNCHANGED <<bulk_user_delete_id, curr_idx, submitted>>
                 [] d.act = "return" /\ parsed # JSONDecodeError
                                     /\ id.type # "value" ->
                    /\ pc' = OnSubmitError
                    /\ clean' = FALSE
                    /\ resp_json' = parsed
                    /\ err' = Surfaced(id.type, start_idx, end_idx, parsed)
                    /\ UNCHANGED <<bulk_user_delete_id, curr_idx, submitted>>
                 [] d.act = "return" /\ parsed # JSONDecodeError
                                     /\ id.type = "value" ->
                    /\ pc' = "loop"
                    /\ resp_json' = parsed
                    /\ bulk_user_delete_id' = id.val
                    /\ submitted' = Append(submitted, <<start_idx, end_idx>>)
                    /\ curr_idx' = NextIdx(curr_idx, chunk_size)
                    /\ UNCHANGED <<clean, err>>
    /\ UNCHANGED <<op, learners, chunk_size, beginning_idx, start_idx, end_idx,
                   learner_vals, ceiling_hit, result>>

(***************************************************************************)
(* get_bulk_delete_status.                                                 *)
(***************************************************************************)
\* what the method hands back after LOG.info(text_type(resp_json)): the body
\* ends there, with no return statement
StatusResult(parsed) == None

\* get_bulk_delete_status(bulk_delete_id) is entered
GetBulkDeleteStatus ==
    /\ pc = "idle"
    /\ op' = "status"
    /\ pc' = "call"
    /\ UNCHANGED <<learners, chunk_size, beginning_idx, curr_idx, start_idx,
                   end_idx, learner_vals, resp_json, bulk_user_delete_id,
                   decode_tries, http_tries, timeout_tries, resp, attempts,
                   timeouts, http_errors, posted, submitted, clean, ceiling_hit,
                   err, result>>

\* one attempt of _call_segment_get, what the retry layers make of it and,
\* once the call returns or raises, the rest of the method
GetAttempt ==
    /\ op = "status"
    /\ pc = "call"
    /\ \E o \in Outcomes :
        LET d == _retry_segment_api(o, decode_tries, http_tries, timeout_tries)
            parsed == Json(o.text)
        IN  /\ resp' = o
            /\ attempts' = attempts + 1
            /\ timeouts' = timeouts + (IF d.exc.type = "Timeout" THEN 1 ELSE 0)
            /\ http_errors' = http_errors + (IF d.exc.type = "HTTPError" THEN 1 ELSE 0)
            /\ decode_tries' = d.dt
            /\ http_tries' = d.ht
            /\ timeout_tries' = d.tt
            /\ CASE d.act = "retry" ->
                    /\ pc' = "call"
                    /\ clean' = FALSE
                    /\ UNCHANGED <<resp_json, err, result>>
                 [] d.act = "raise" ->
                    /\ pc' = "raised"
                    /\ clean' = FALSE
                    /\ err' = RawError(d.exc.type, "")
                    /\ UNCHANGED <<resp_json, result>>
                 [] d.act = "return" /\ parsed = JSONDecodeError ->
                    /\ pc' = "raised"
                    /\ clean' = FALSE
                    /\ err' = RawError("JSONDecodeError", "")
                    /\ UNCHANGED <<resp_json, result>>
                 [] d.act = "return" /\ parsed # JSONDecodeError ->
                    /\ pc' = "done"
                    /\ resp_json' = parsed
                    /\ result' = StatusResult(parsed)
                    /\ UNCHANGED <<clean, err>>
    /\ UNCHANGED <<op, learners, chunk_size, beginning_idx, curr_idx, start_idx,
                   end_idx, learner_vals, bulk_user_delete_id, posted,
                   submitted, ceiling_hit>>

Next ==
    \/ DeleteLearners
    \/ DeleteLearner
    \/ BeginWindow
    \/ PostAttempt
    \/ GetBulkDeleteStatus
    \/ GetAttempt

Spec == Init /\ [][Next]_vars

TypeOK ==
    /\ op \in {"none", "delete", "status"}
    /\ pc \in {"idle", "loop", "call", "done", "raised"}
    /\ decode_tries \in 1..MAX_TRIES
    /\ http_tries \in 1..MAX_TRIES
    /\ timeout_tries \in 1..MAX_TRIES
    /\ attempts \in 0..(MAX_TRIES * MAX_TRIES)
    /\ clean \in BOOLEAN
    /\ ceiling_hit \in BOOLEAN

(***************************************************************************)
(* Vocabulary of the properties.                                           *)
(***************************************************************************)
\* N: the number of records in learners[beginning_idx:]
Remaining == Len(learners) - beginning_idx

Ceil(n, c) == (n + c - 1) \div c

\* the number of identifier values the records lo..hi hold
ValueCount(lo, hi) ==
    2 * (hi - lo + 1)
    + Cardinality({idx \in lo..hi : "ecommerce_segment_id" \in DOMAIN At(learners, idx)})

\* a record of lo..hi lacks id or original_username
LacksRequired(lo, hi) ==
    \E idx \in lo..hi : ~({"id", "original_username"} \subseteq DOMAIN At(learners, idx))

\* the last index of the window that starts at curr_idx
NextWindowEnd ==
    IF curr_idx + chunk_size < Len(learners)
    THEN curr_idx + chunk_size - 1
    ELSE Len(learners) - 1

Retryable(status_code) ==
    status_code = 429 \/ status_code \in 500..599

\* a 200 answer that carries a regulate_id
Accepted(r) ==
    r.kind = "response" /\ r.status_code = 200 /\ r.text \in {BODY_R1, BODY_R2}

\* the step issues a request
Requests == attempts' = attempts + 1

\* delete_learners raised while submitting the window start_idx..end_idx
SubmissionFailed ==
    /\ op = "delete"
    /\ pc = "raised"
    /\ posted # <<>>
    /\ posted[Len(posted)] = <<start_idx, end_idx>>

(***************************************************************************)
(* C1.  When no window reaches the ceiling and every submission succeeds,  *)
(* delete_learners submits exactly ceil(N / chunk_size) windows, N being   *)
(* the number of records from beginning_idx on; every window a request was *)
(* issued for was submitted, and with no failed attempt each took one      *)
(* request.                                                                *)
(***************************************************************************)
C1_WindowCount ==
    /\ (op = "delete" /\ pc = "done" /\ ~ceiling_hit) =>
          /\ Len(submitted) = Ceil(Remaining, chunk_size)
          /\ posted = submitted
    /\ (op = "delete" /\ pc \in {"loop", "done"} /\ clean /\ submitted # <<>>) =>
          attempts = 1

\* the documented example: 12 learners, chunk_size 5, windows of 5, 5 and 2
C1_Witness ==
    /\ op = "delete"
    /\ pc = "done"
    /\ Len(learners) = 12
    /\ chunk_size = 5
    /\ clean
    /\ submitted = << <<0, 4>>, <<5, 9>>, <<10, 11>> >>

(***************************************************************************)
(* C2.  A window whose flattened value count is at or over the ceiling is  *)
(* never submitted: every window a request is issued for holds fewer       *)
(* values than the ceiling, and once such a window is reached the method   *)
(* has returned with requests issued only for earlier windows, and no      *)
(* request follows.                                                        *)
(***************************************************************************)
C2_CeilingNeverPosted ==
    /\ [](/\ \A k \in 1..Len(posted) :
                ValueCount(posted[k][1], posted[k][2]) < MAXIMUM_USERS_IN_DELETE_REQUEST
          /\ ceiling_hit =>
                /\ pc = "done"
                /\ ValueCount(start_idx, end_idx) >= MAXIMUM_USERS_IN_DELETE_REQUEST
                /\ \A k \in 1..Len(posted) : posted[k][2] < start_idx)
    /\ [][(/\ op = "delete"
            /\ pc = "loop"
            /\ curr_idx < Len(learners)
            /\ ~LacksRequired(curr_idx, NextWindowEnd)
            /\ ValueCount(curr_idx, NextWindowEnd) >= MAXIMUM_USERS_IN_DELETE_REQUEST)
             => (pc' = "done" /\ ceiling_hit' /\ posted' = posted)]_vars
    /\ [][ceiling_hit => (posted' = posted /\ attempts' = attempts)]_vars

\* a first window of ceiling - 1 values was submitted and the second, of
\* exactly ceiling values, was not
C2_Witness ==
    /\ ceiling_hit
    /\ submitted # <<>>
    /\ Len(learner_vals) = MAXIMUM_USERS_IN_DELETE_REQUEST
    /\ posted = submitted

(***************************************************************************)
(* C3.  delete_learners is fail-fast: the attempt that ends a submission   *)
(* in an HTTP error, an undecodable body or a body without regulate_id     *)
(* raises to the caller and submits nothing, and once the method has       *)
(* raised no request is issued and no window is submitted.                 *)
(***************************************************************************)
C3_FailFast ==
    /\ [][(/\ op = "delete"
           /\ Requests
           /\ pc' # "call"
           /\ resp'.kind = "response"
           /\ ~Accepted(resp'))
            => (/\ pc' = "raised"
                /\ err' # NoError
                /\ submitted' = submitted
                /\ curr_idx' = curr_idx)]_vars
    /\ [][pc = "raised"
            => (/\ pc' = "raised"
                /\ posted' = posted
                /\ submitted' = submitted
                /\ attempts' = attempts)]_vars

\* the second window failed for want of a regulate_id; the third was never tried
C3_Witness ==
    /\ SubmissionFailed
    /\ err.cause = "KeyError"
    /\ submitted = << <<0, 4>> >>
    /\ posted = << <<0, 4>>, <<5, 9>> >>
    /\ Len(learners) = 12

(***************************************************************************)
(* C4.  An HTTP error answer whose status is neither 429 nor in 500..599   *)
(* is never retried: after such an answer the outbound call (POST or GET)  *)
(* is over and the HTTP error has surfaced, and when it answers the first  *)
(* attempt the call has made exactly one attempt.                          *)
(***************************************************************************)
C4_NoRetryOnClientError ==
    /\ [](/\ (pc = "call" /\ attempts > 0 /\ resp.kind = "response") =>
                Retryable(resp.status_code)
          /\ (resp.kind = "response" /\ resp.status_code >= 400
                 /\ ~Retryable(resp.status_code)) =>
                (pc = "raised" /\ err.cause = "HTTPError"))
    /\ [][(/\ pc = "call"
           /\ attempts = 0
           /\ Requests
           /\ resp'.kind = "response"
           /\ resp'.status_code >= 400
           /\ ~Retryable(resp'.status_code))
            => (pc' = "raised" /\ attempts' = 1 /\ err'.cause = "HTTPError")]_vars
    /\ [][pc = "raised" => attempts' = attempts]_vars

\* a 404 answered the first attempt and the call ended there
C4_Witness ==
    /\ pc = "raised"
    /\ resp.status_code = 404
    /\ attempts = 1
    /\ err.cause = "HTTPError"

C6_DecodeFailureRetried ==
    (pc = "raised" /\ err.cause = "JSONDecodeError") => decode_tries = MAX_TRIES

(***************************************************************************)
(* C7.  get_bulk_delete_status returns the parsed JSON body of the status  *)
(* answer whenever the server answers valid JSON with a success status.    *)
(***************************************************************************)
C7_StatusReturnsParsedBody ==
    (op = "status" /\ pc = "done") =>
        (result.type = Json(resp.text).type /\ result = Json(resp.text))

(***************************************************************************)
(* C8.  Every error delete_learners surfaces because a window's submission *)
(* failed (HTTP error, timeout after the retries, decode failure, missing  *)
(* regulate_id) carries the start and end indices of that window.          *)
(***************************************************************************)
C8_ErrorCarriesIndices ==
    SubmissionFailed => err.indices = <<start_idx, end_idx>>

(***************************************************************************)
(* C9.  When a submission fails with an HTTP error, an undecodable body or *)
(* a body without regulate_id, the error raised holds the content of the   *)
(* server's answer for that window: its text, or the text of its parsed    *)
(* form.                                                                   *)
(***************************************************************************)
C9_ErrorCarriesResponse ==
    (SubmissionFailed /\ err.cause \in {"HTTPError", "JSONDecodeError", "KeyError", "TypeError"}) =>
        \/ err.content = resp.text
        \/ (Json(resp.text) # JSONDecodeError /\ err.content = Repr(Json(resp.text)))

(***************************************************************************)
(* C10.  If a record of a window lacks id or original_username the method  *)
(* fails with a KeyError before the window's request: no request is ever   *)
(* issued for a window with such a record, or for a later window.          *)
(***************************************************************************)
C10_MissingFieldBeforePost ==
    /\ [](/\ \A k \in 1..Len(posted) : ~LacksRequired(posted[k][1], posted[k][2])
          /\ (op = "delete" /\ pc = "call") => ~LacksRequired(start_idx, end_idx)
          /\ err.type = "KeyError" =>
                /\ pc = "raised"
                /\ LacksRequired(start_idx, end_idx)
                /\ err.content \in {"id", "original_username"}
                /\ \A k \in 1..Len(posted) : posted[k][2] < start_idx)
    /\ [][(/\ op = "delete"
           /\ pc = "loop"
           /\ curr_idx < Len(learners)
           /\ LacksRequired(curr_idx, NextWindowEnd))
            => (pc' = "raised" /\ err'.type = "KeyError" /\ posted' = posted)]_vars
    /\ [][err.type = "KeyError" => (posted' = posted /\ attempts' = attempts)]_vars

\* the record in the middle of the second window lacks original_username:
\* the first window was submitted, the second never requested
C10_Witness ==
    /\ op = "delete"
    /\ pc = "raised"
    /\ err.type = "KeyError"
    /\ err.content = "original_username"
    /\ start_idx = 5
    /\ end_idx = 9
    /\ posted = << <<0, 4>> >>
    /\ "original_username" \notin DOMAIN At(learners, 7)

(***************************************************************************)
(* C11.  The values of every request are the flattening of its window:     *)
(* record by record in window order, the text of id, then                  *)
(* original_username, then ecommerce_segment_id exactly when the record    *)
(* holds it; k records of which j hold the optional key give 2k + j        *)
(* values, and a window whose records hold both required keys and stays    *)
(* under the ceiling goes to its request without an error.                 *)
(***************************************************************************)
\* the decimal text of a non-negative int, digit by digit
RECURSIVE Decimal(_)
Decimal(n) ==
    LET digit == <<"0", "1", "2", "3", "4", "5", "6", "7", "8", "9">>[(n % 10) + 1]
    IN  IF n < 10 THEN digit ELSE Decimal(n \div 10) \o digit

\* where the values of the record at idx start in the values of its window
OffsetOf(idx) ==
    IF idx = start_idx THEN 0 ELSE ValueCount(start_idx, idx - 1)

C11_ValuesAreFlattening ==
    /\ []((op = "delete" /\ pc = "call") =>
            /\ Len(learner_vals) = ValueCount(start_idx, end_idx)
            /\ Len(learners) <= 12 =>
                  \A idx \in start_idx..end_idx :
                     LET l == At(learners, idx)
                         at == OffsetOf(idx)
                     IN  /\ learner_vals[at + 1] = Decimal(l.id.val)
                         /\ learner_vals[at + 2] = l.original_username.val
                         /\ "ecommerce_segment_id" \in DOMAIN l =>
                               learner_vals[at + 3] = l.ecommerce_segment_id.val)
    /\ [][(/\ op = "delete"
           /\ pc = "loop"
           /\ curr_idx < Len(learners)
           /\ ~LacksRequired(curr_idx, NextWindowEnd)
           /\ ValueCount(curr_idx, NextWindowEnd) < MAXIMUM_USERS_IN_DELETE_REQUEST)
            => (pc' = "call" /\ err' = NoError)]_vars

\* the second window of the example is being requested: five records, three
\* of them with the optional key, thirteen values
C11_Witness ==
    /\ op = "delete"
    /\ pc = "call"
    /\ start_idx = 5
    /\ end_idx = 9
    /\ Len(learner_vals) = 13
    /\ learner_vals[1] = "106"
    /\ learner_vals[2] = "user6"
    /\ learner_vals[3] = "ecom6"
    /\ learner_vals[4] = "107"
    /\ learner_vals[5] = "user7"
    /\ learner_vals[6] = "108"

(***************************************************************************)
(* C12.  When a window reaches or exceeds the ceiling, delete_learners     *)
(* returns normally: no error is raised, the method returns None, and the  *)
(* windows submitted before the offending one remain submitted.            *)
(***************************************************************************)
C12_CeilingReturnsNormally ==
    /\ [](ceiling_hit =>
            /\ pc = "done"
            /\ err = NoError
            /\ result = None
            /\ Len(submitted) * chunk_size = start_idx - beginning_idx
            /\ \A k \in 1..Len(submitted) :
                  submitted[k][1] = beginning_idx + (k - 1) * chunk_size)
    /\ [][ceiling_hit' => submitted' = submitted]_vars

\* the second window held ceiling + 1 or ceiling values; the first stays submitted
C12_Witness ==
    /\ ceiling_hit
    /\ pc = "done"
    /\ err = NoError
    /\ start_idx = BigChunk
    /\ submitted = << <<0, BigChunk - 1>> >>

(***************************************************************************)
(* C13.  In an error-free run the submitted windows are consecutive,       *)
(* non-overlapping slices of learners[beginning_idx:] in ascending order,  *)
(* each of chunk_size records except possibly the last: every record at    *)
(* an index >= beginning_idx is in exactly one request and no record       *)
(* before beginning_idx is in any.                                         *)
(***************************************************************************)
\* the windows that hold the record at idx
WindowsWith(idx) ==
    {k \in 1..Len(submitted) : submitted[k][1] <= idx /\ idx <= submitted[k][2]}

C13_WindowsPartition ==
    (op = "delete" /\ pc = "done" /\ ~ceiling_hit) =>
        /\ \A idx \in 0..(Len(learners) - 1) :
              Cardinality(WindowsWith(idx)) = IF idx >= beginning_idx THEN 1 ELSE 0
        /\ \A k \in 1..Len(submitted) :
              /\ submitted[k][1] <= submitted[k][2]
              /\ k < Len(submitted) =>
                    /\ submitted[k][2] - submitted[k][1] + 1 = chunk_size
                    /\ submitted[k + 1][1] = submitted[k][2] + 1
              /\ k = Len(submitted) =>
                    submitted[k][2] - submitted[k][1] + 1 <= chunk_size
        /\ posted = submitted

\* the example list from beginning_idx 3: a window of 5 and a last one of 4
C13_Witness ==
    /\ op = "delete"
    /\ pc = "done"
    /\ clean
    /\ beginning_idx = 3
    /\ chunk_size = 5
    /\ Len(learners) = 12
    /\ submitted = << <<3, 7>>, <<8, 11>> >>

(***************************************************************************)
(* C14.  An outbound call whose every attempt is answered with 429 or 5xx  *)
(* makes exactly 4 attempts and then surfaces the HTTP error of the 4th;   *)
(* it never makes a 5th.                                                   *)
(***************************************************************************)
\* every attempt of the current call so far ended in an HTTP error
OnlyHttpErrors ==
    /\ pc \in {"call", "raised"}
    /\ attempts > 0
    /\ http_errors = attempts

C15_AtMostFourTimeouts ==
    timeouts <= MAX_TRIES

(***************************************************************************)
(* C16.  An outbound call whose every attempt times out makes exactly 4    *)
(* attempts and then surfaces the timeout; the HTTP-error and decode       *)
(* layers around the timeout layer do not retry it.                        *)
(***************************************************************************)
\* every attempt of the current call so far timed out
OnlyTimeouts ==
    /\ pc \in {"call", "raised"}
    /\ attempts > 0
    /\ timeouts = attempts

C16_TimeoutsExhaust ==
    /\ [](OnlyTimeouts =>
            /\ attempts <= MAX_TRIES
            /\ http_tries = 1
            /\ decode_tries = 1
            /\ attempts < MAX_TRIES => (pc = "call" /\ err = NoError)
            /\ attempts = MAX_TRIES =>
                  (pc = "raised" /\ err.type = "Timeout" /\ err.cause = "Timeout"))
    /\ [][(pc = "raised" /\ err.type = "Timeout") => attempts' = attempts]_vars

\* four timeouts in a row ended the call with the timeout
C16_Witness ==
    /\ pc = "raised"
    /\ attempts = MAX_TRIES
    /\ timeouts = MAX_TRIES
    /\ timeout_tries = MAX_TRIES
    /\ http_tries = 1
    /\ err.type = "Timeout"

(***************************************************************************)
(* C17.  At every point of every execution of delete_learners, however it  *)
(* ends, the windows submitted so far are the first windows of             *)
(* learners[beginning_idx:] in order, and none is submitted twice.         *)
(***************************************************************************)
\* the k-th window of learners[beginning_idx:], k counted from 1
OrderedWindow(k) ==
    <<beginning_idx + (k - 1) * chunk_size,
      Min(beginning_idx + k * chunk_size, Len(learners)) - 1>>

C17_SubmittedIsPrefix ==
    /\ [](/\ Len(submitted) <= Ceil(Remaining, chunk_size)
          /\ \A k \in 1..Len(submitted) : submitted[k] = OrderedWindow(k)
          /\ \A j, k \in 1..Len(submitted) :
                submitted[j] = submitted[k] => j = k)
    /\ [][\/ submitted' = submitted
          \/ /\ pc = "call"
             /\ submitted' = Append(submitted, OrderedWindow(Len(submitted) + 1))]_vars

\* two windows accepted, the third one failed
C17_Witness ==
    /\ pc = "raised"
    /\ err.type = "Exception"
    /\ submitted = <<OrderedWindow(1), OrderedWindow(2)>>
    /\ start_idx = 10
    /\ beginning_idx = 0

(***************************************************************************)
(* C18.  For every learner list, chunk_size >= 1 and sequence of server    *)
(* outcomes, delete_learners terminates, by returning or by raising; the   *)
(* loop index strictly increases with each accepted window and the         *)
(* retries of every window are bounded.                                    *)
(***************************************************************************)
\* the longest list of the runs checked for termination
MaxFairLen == 12

\* the steps of the runs on lists of at most MaxFairLen learners
FairNext == Next /\ Len(learners') <= MaxFairLen

\* single-threaded, blocking: a call that can take a step takes it
FairSpec == Init /\ [][FairNext]_vars /\ WF_vars(FairNext)

\* the requests one window can take, and one more step for the loop test
WindowBudget == MAX_TRIES * MAX_TRIES + 1

\* how far the retry layers of the running call have advanced
RetryPosition == (http_tries - 1) * MAX_TRIES + (timeout_tries - 1)

\* windows from curr_idx to the end of the list
WindowsLeft == Ceil(Len(learners) - curr_idx, chunk_size)

\* a bound on the steps delete_learners can still take
Rank ==
    CASE pc = "loop" -> WindowsLeft * WindowBudget + 1
      [] pc = "call" -> WindowsLeft * WindowBudget - RetryPosition
      [] OTHER -> 0

C18_Terminates ==
    /\ (op = "delete") ~> (pc \in {"done", "raised"})
    /\ [][op = "delete" => (Rank' < Rank /\ Rank' >= 0)]_vars
    /\ [][(op = "delete" /\ Len(submitted') > Len(submitted)) =>
              curr_idx' > curr_idx]_vars
    /\ [](op = "delete" => RetryPosition < MAX_TRIES * MAX_TRIES)

\* a run of three windows that took retries has returned
C18_Witness ==
    /\ op = "delete"
    /\ pc = "done"
    /\ ~clean
    /\ Len(submitted) = 3
    /\ curr_idx = 15
    /\ Rank = 0

(***************************************************************************)
(* C19.  The timeout layer (4 tries) is nested inside the HTTP-error       *)
(* layer (4 tries): one outbound call issues at most 16 requests under     *)
(* any mix of timeouts and retryable HTTP errors, and at most 4 of its     *)
(* attempts end in an HTTP error response.                                 *)
(***************************************************************************)
C19_RequestsBounded ==
    /\ attempts <= MAX_TRIES * MAX_TRIES
    /\ http_errors <= MAX_TRIES
    /\ attempts <= http_tries * MAX_TRIES

\* the longest call: three timeouts before each of four 5xx answers
C19_Witness ==
    /\ pc = "raised"
    /\ attempts = MAX_TRIES * MAX_TRIES
    /\ http_errors = MAX_TRIES
    /\ timeouts = MAX_TRIES * (MAX_TRIES - 1)
    /\ err.cause = "HTTPError"

====
